---------------------------- MODULE Spec2Model ----------------------------
(***************************************************************************)
(* BLE bulk transfer: the peripheral's sender (src/app_data_transfer.c),   *)
(* the firmware that calls it (src/app_bt_gatt_handler.c, src/main.c) and  *)
(* the central's receiver (src/shared_driver/src/transfer_session.cpp) as  *)
(* state machines, and the 24-bit sample packing of src/app_waveform.c     *)
(* with the unpack of both peers.                                          *)
(*                                                                         *)
(* The corpus constants TOTAL_BLOCKS (1800), ACK_INTERVAL (20) and the      *)
(* samples per waveform (2376) are scaled down; every other number is the  *)
(* source's.  Statistics that are only printed (stats.total_bytes,         *)
(* stats.blocks_sent, timestamps, notifications_queued, ...) are not part  *)
(* of the state: no branch of the code reads them.                         *)
(***************************************************************************)
EXTENDS Integers, Sequences, FiniteSets, TLC

(***************************************************************************)
(* Bounds of the model.                                                    *)
(***************************************************************************)
\* app_data_transfer.h:23 / protocol.h:19 define 1800; scaled.
TOTAL_BLOCKS == 3
\* app_data_transfer.h:26 / protocol.h:21 define 20; scaled.
ACK_INTERVAL == 2
\* app_waveform.h:19 / protocol.h:29 define 2376; scaled.
SAMPLES_PER_WAVEFORM == 10
\* Longest run of failed sends the link produces in a row under Spec.
MaxSendFailures == 1
\* Longest run of successful sends the link produces in a row under Spec.
MaxSendSuccesses == 2
\* Notifications the link stack buffers; past it a send is refused.
LinkCapacity == 4
\* Longest run of failed sends the link produces in a row under SpecPacing.
MaxPacingFailures == 11
\* Longest run of successful sends the link produces in a row under SpecPacing.
MaxPacingSuccesses == 51
\* samples taken on either side of each edge of the packed form
MaxSampleWindow == 2
\* samples packed into one buffer
SamplesPacked == 2

(***************************************************************************)
(* Program constants.                                                      *)
(***************************************************************************)
BYTES_PER_SAMPLE == 3
WAVEFORM_HEADER_SIZE == 38
CHUNK_HEADER_SIZE == 12
ATT_OVERHEAD == 3
CONTROL_MSG_SIZE == 7
MAX_NOTIFICATIONS_IN_FLIGHT == 2
MIN_DELAY_MS == 15
MAX_DELAY_MS == 50
INITIAL_DELAY_MS == 15
CONGESTION_THRESHOLD == 3
SUCCESS_THRESHOLD == 50
BACKOFF_INCREMENT == 5
SPEEDUP_DECREMENT == 1
CTRL_CMD_START == 1
CTRL_CMD_STOP == 2
CTRL_CMD_ACK == 3
CTRL_CMD_REQUEST_RESUME == 4
UINT16_MOD == 65536

WAVEFORM_RAW_DATA_SIZE == SAMPLES_PER_WAVEFORM * BYTES_PER_SAMPLE
\* protocol.h:20 is 7168 = 38 + 2376*3 + 2: the block bound lies two bytes
\* above the raw block; the scaled model keeps that distance.
BLOCK_SIZE == WAVEFORM_HEADER_SIZE + WAVEFORM_RAW_DATA_SIZE + 2

\* transfer_state_t
TRANSFER_STATE_IDLE == "IDLE"
TRANSFER_STATE_ACTIVE == "ACTIVE"
TRANSFER_STATE_PAUSED == "PAUSED"
TRANSFER_STATE_WAITING_ACK == "WAITING_ACK"
TRANSFER_STATE_COMPLETE == "COMPLETE"

\* wiced_bt_gatt_status_t values send_chunk tells apart
WICED_BT_GATT_SUCCESS == "SUCCESS"
WICED_BT_GATT_CONGESTED == "CONGESTED"
WICED_BT_GATT_ERROR == "ERROR"

U16(x) == x % UINT16_MOD
(***************************************************************************)
(* Bytes, little-endian fields and the CRC-32 of both peers.  A uint32_t   *)
(* that can exceed 2^31 (a CRC) is held as its four little-endian bytes.   *)
(***************************************************************************)
RECURSIVE LE(_, _)
\* the n-byte little-endian layout of v in a packed struct
LE(v, n) == IF n = 0 THEN <<>> ELSE <<v % 256>> \o LE(v \div 256, n - 1)

RECURSIVE XorBits(_, _)
\* a ^ b on naturals, bit by bit
XorBits(a, b) ==
    IF a = 0 THEN b
    ELSE IF b = 0 THEN a
    ELSE (((a % 2) + (b % 2)) % 2) + 2 * XorBits(a \div 2, b \div 2)

RECURSIVE XorRow(_, _)
XorRow(a, b) == IF b > 15 THEN <<>> ELSE <<XorBits(a, b)>> \o XorRow(a, b + 1)
RECURSIVE XorRows(_)
XorRows(a) == IF a > 15 THEN <<>> ELSE <<XorRow(a, 0)>> \o XorRows(a + 1)
\* ^ on 4-bit values, tabulated: XorTable[a + 1][b + 1] = a ^ b
XorTable == XorRows(0)

\* the 4-bit digit k of v
Nibble(v, k) == (v \div k) % 16
\* a ^ b on 16-bit values, four bits at a time
Xor(a, b) ==
    XorTable[Nibble(a, 1) + 1][Nibble(b, 1) + 1]
    + 16 * XorTable[Nibble(a, 16) + 1][Nibble(b, 16) + 1]
    + 256 * XorTable[Nibble(a, 256) + 1][Nibble(b, 256) + 1]
    + 4096 * XorTable[Nibble(a, 4096) + 1][Nibble(b, 4096) + 1]

\* a uint32_t crc register is the pair <<low 16 bits, high 16 bits>>
\* 0xEDB88320
CRC_POLY == <<33568, 60856>>
\* 0xFFFFFFFF
CRC_ONES == <<65535, 65535>>

\* (crc & 1) ? (crc >> 1) ^ 0xEDB88320 : crc >> 1
CrcStep(crc) ==
    LET lo == crc[1] \div 2 + (crc[2] % 2) * 32768
        hi == crc[2] \div 2
    IN  IF crc[1] % 2 = 1 THEN <<Xor(lo, CRC_POLY[1]), Xor(hi, CRC_POLY[2])>>
        ELSE <<lo, hi>>

RECURSIVE CrcShift(_, _)
\* the inner loop: k times CrcStep
CrcShift(crc, k) == IF k = 0 THEN crc ELSE CrcStep(CrcShift(crc, k - 1))

\* one round of the outer loop: crc ^= byte, then the inner loop
CrcByte(crc, byte) == CrcShift(<<Xor(crc[1], byte), crc[2]>>, 8)

RECURSIVE CrcBytes(_, _, _)
\* the outer loop over data[i ..], crc the register so far.  (The test on
\* crc[1] never succeeds: it makes TLC evaluate the register round by round
\* instead of nesting the rounds.)
CrcBytes(crc, data, i) ==
    IF i > Len(data) \/ crc[1] < 0 THEN crc
    ELSE CrcBytes(CrcByte(crc, data[i]), data, i + 1)

\* app_waveform_crc32 (sender), calculate_crc32_data (receiver): ~crc, as
\* the four little-endian bytes of the result
app_waveform_crc32(data) ==
    LET crc == CrcBytes(CRC_ONES, data, 1)
        lo == 65535 - crc[1]
        hi == 65535 - crc[2]
    IN  <<lo % 256, lo \div 256, hi % 256, hi \div 256>>

\* pack_24bit_sample: the three bytes written for an int32_t sample
pack_24bit_sample(sample) ==
    LET u == (sample + 16777216) % 16777216
    IN  <<u % 256, (u \div 256) % 256, (u \div 65536) % 256>>

\* unpack_24bit_sample of app_waveform.c: the int32_t read at index.  The
\* three bytes are or-ed into bits 0..23; when bit 23 is set, sample |=
\* 0xFF000000 sets bits 24..31, which takes 2^24 off the value.
app_waveform_unpack_24bit_sample(buffer, index) ==
    LET offset == index * 3
        sample == buffer[offset + 1] + 256 * buffer[offset + 2] + 65536 * buffer[offset + 3]
    IN  IF (sample \div 8388608) % 2 = 1 THEN sample - 16777216 ELSE sample

\* the receiver's unpack of one sample without the sign extension
unpack_24bit_sample_NoSignExtend(bytes, offset) ==
    bytes[offset + 1] + 256 * bytes[offset + 2] + 65536 * bytes[offset + 3]

\* unpack_24bit_samples (receiver), one sample: the int32_t read at offset
unpack_24bit_sample(bytes, offset) ==
    LET v == bytes[offset + 1] + 256 * bytes[offset + 2] + 65536 * bytes[offset + 3]
    IN  IF (v \div 8388608) % 2 = 1 THEN v - 16777216 ELSE v

RECURSIVE PackSamples(_, _)
PackSamples(samples, i) ==
    IF i > Len(samples) THEN <<>>
    ELSE pack_24bit_sample(samples[i]) \o PackSamples(samples, i + 1)

\* calculate_crc32_samples: the CRC over the packed form of the samples
calculate_crc32_samples(samples) == app_waveform_crc32(PackSamples(samples, 1))

(***************************************************************************)
(* Block source (sender): app_waveform_generate.                           *)
(***************************************************************************)
\* The simulated waveform (noise and echoes in floating point) is stood in
\* for by a fixed sample per (block, index) in the clamped 24-bit range.
SourceSample(block_num, i) == (block_num + 1) * 1000 * i - 1500
SourceSamples(block_num) == [i \in 1 .. SAMPLES_PER_WAVEFORM |-> SourceSample(block_num, i)]

\* the packed waveform_block_header_t (38 bytes); crc: the four bytes of crc32
HeaderWithCrc(block_num, crc) ==
    LE(block_num, 4) \o LE(block_num * 100, 4) \o LE(50000000, 4)
    \o LE(SAMPLES_PER_WAVEFORM, 2) \o LE(24, 2) \o LE(250, 2)
    \o LE(5000000, 4) \o <<5, 200>>
    \o LE(1001, 2) \o LE(235, 2) \o <<60, 3>>
    \o crc \o LE(0, 2) \o LE(0, 2)

\* generate_block_data, the build's branch (BENCHMARK_MODE_ENABLED = 0,
\* USE_COMPRESSION = 0): the buffer is header + raw packed samples
GenerateBlock(block_num) ==
    LET raw == PackSamples(SourceSamples(block_num), 1)
    IN  HeaderWithCrc(block_num, app_waveform_crc32(raw)) \o raw

\* the blocks of a session, each generated once
RECURSIVE GenerateBlocks(_)
GenerateBlocks(block_num) ==
    IF block_num >= TOTAL_BLOCKS THEN <<>>
    ELSE <<GenerateBlock(block_num)>> \o GenerateBlocks(block_num + 1)
SessionBlocks == GenerateBlocks(0)
BlockBytes(block_num) == SessionBlocks[block_num + 1]

(***************************************************************************)
(* Inputs.                                                                 *)
(***************************************************************************)
\* block_number values of the ACK messages the central writes
AckValues == (0 .. TOTAL_BLOCKS) \cup {UINT16_MOD - 1}
\* writes to the control characteristic: val_len bytes carrying control_msg_t
ControlMsg(len, c, b) == [val_len |-> len, command |-> c, block_number |-> b]
ControlMessages ==
    {ControlMsg(CONTROL_MSG_SIZE - 1, CTRL_CMD_START, 0),
     ControlMsg(CONTROL_MSG_SIZE, CTRL_CMD_START, 0),
     ControlMsg(CONTROL_MSG_SIZE, CTRL_CMD_STOP, 0),
     ControlMsg(CONTROL_MSG_SIZE, CTRL_CMD_REQUEST_RESUME, 0)}
    \cup {ControlMsg(CONTROL_MSG_SIZE, CTRL_CMD_ACK, b) : b \in AckValues}
\* negotiated MTUs: one that puts half a raw block into a chunk
MtuValues == {ATT_OVERHEAD + CHUNK_HEADER_SIZE
              + (WAVEFORM_HEADER_SIZE + WAVEFORM_RAW_DATA_SIZE) \div 2}
LinkStatuses == {WICED_BT_GATT_SUCCESS, WICED_BT_GATT_CONGESTED, WICED_BT_GATT_ERROR}

VARIABLES
    \* ---- sender (app_data_transfer.c statics) ----
    current_state,
    notifications_enabled,
    negotiated_mtu,
    actual_chunk_size,
    current_block,
    current_chunk,
    last_acked_block,
    waiting_for_ack,
    block_data,                 \* number of the block the buffer holds, -1: none
    current_block_size,
    consecutive_send_failures,
    consecutive_send_successes,
    current_delay_ms,
    notification_credits,
    \* ---- link ----
    link_in_flight,             \* data notifications accepted, not yet transmitted
    link_tx,                    \* chunk handed to the link by the last step, or NoTx
    \* ---- receiver (struct transfer_session) ----
    is_active,
    received_blocks,            \* block_number -> assembled bytes
    block_chunks,               \* block_number -> (chunk_number -> bytes)
    block_expected_chunks,      \* block_number -> total_chunks of its first chunk
    total_bytes_received,
    total_chunks_received,
    \* ---- what the embedder observes ----
    rx_started,                 \* transfer_session_start has been called
    rx_calls,                   \* return value and callbacks of the last call
    waveform_calls,             \* on-waveform invocations since start()
    completion_calls,           \* on-completion invocations since start()
    \* ---- the firmware around the sender ----
    app_bt_conn_id,             \* main.c: 0 while no central is connected
    task_pc,                    \* data_transfer_task: "call" between two calls of
                                \* process_next_chunk, "sent" inside one, behind
                                \* a successful send_chunk
    \* ---- the 24-bit sample packing on its own ----
    waveform_samples,           \* the int32_t samples handed to pack_24bit_sample
    packed_samples,             \* the uint8_t buffer they are packed into
    unpacked_samples            \* what the sender's and the receiver's unpack read back

senderVars == <<current_state, notifications_enabled, negotiated_mtu, actual_chunk_size,
                current_block, current_chunk, last_acked_block, waiting_for_ack,
                block_data, current_block_size, consecutive_send_failures,
                consecutive_send_successes, current_delay_ms, notification_credits,
                link_in_flight, link_tx>>

receiverVars == <<is_active, received_blocks, block_chunks, block_expected_chunks,
                  total_bytes_received, total_chunks_received,
                  rx_started, rx_calls, waveform_calls, completion_calls>>

\* the firmware's variables, which change only under the specifications of
\* the wired firmware (SpecFirmware) and of the interleaved task
\* (SpecInterleaved)
wiringVars == <<app_bt_conn_id, task_pc>>

\* the variables of the sample packing, which change only under SpecSamples
codecVars == <<waveform_samples, packed_samples, unpacked_samples>>

vars == <<senderVars, receiverVars, wiringVars, codecVars>>

NoTx == [sent |-> FALSE]

(***************************************************************************)
(* Sender: src/app_data_transfer.c                                         *)
(***************************************************************************)

\* generate_block_data, the build's branch (BENCHMARK_MODE_ENABLED = 0,
\* USE_COMPRESSION = 0): header + raw samples; returns the size.
generate_block_data(block_num) == WAVEFORM_HEADER_SIZE + WAVEFORM_RAW_DATA_SIZE

\* (current_block_size + actual_chunk_size - 1) / actual_chunk_size, as uint16_t
ChunksInBlock(block_size, chunk_size) == U16((block_size + chunk_size - 1) \div chunk_size)

\* reset_transfer_state after the static initialisers (app_data_transfer_init)
SenderInit ==
    /\ current_state = TRANSFER_STATE_IDLE
    /\ notifications_enabled = FALSE
    /\ negotiated_mtu = 23
    /\ actual_chunk_size = 12
    /\ current_block = 0
    /\ current_chunk = 0
    /\ last_acked_block = 0
    /\ waiting_for_ack = FALSE
    /\ block_data = -1
    /\ current_block_size = BLOCK_SIZE
    /\ consecutive_send_failures = 0
    /\ consecutive_send_successes = 0
    /\ current_delay_ms = INITIAL_DELAY_MS
    /\ notification_credits = MAX_NOTIFICATIONS_IN_FLIGHT
    /\ link_in_flight = 0
    /\ link_tx = NoTx

pacingVars == <<consecutive_send_failures, consecutive_send_successes, current_delay_ms>>
mtuVars == <<negotiated_mtu, actual_chunk_size>>
linkVars == <<notification_credits, link_in_flight>>

\* app_data_transfer_set_mtu
app_data_transfer_set_mtu(mtu) ==
    /\ negotiated_mtu' = mtu
    /\ actual_chunk_size' = U16(mtu - ATT_OVERHEAD - CHUNK_HEADER_SIZE)
    /\ link_tx' = NoTx
    /\ UNCHANGED <<current_state, notifications_enabled, current_block, current_chunk,
                   last_acked_block, waiting_for_ack, block_data, current_block_size,
                   pacingVars, linkVars>>

\* app_data_transfer_start: what it assigns when notifications are enabled
StartEffect ==
    /\ current_state' = TRANSFER_STATE_ACTIVE
    /\ current_block' = 0
    /\ current_chunk' = 0
    /\ last_acked_block' = 0
    /\ waiting_for_ack' = FALSE
    /\ block_data' = 0
    /\ current_block_size' = generate_block_data(0)

protocolVars == <<current_state, current_block, current_chunk, last_acked_block,
                  waiting_for_ack, block_data, current_block_size>>

app_data_transfer_start ==
    IF ~notifications_enabled THEN UNCHANGED protocolVars ELSE StartEffect

\* app_data_transfer_stop
app_data_transfer_stop ==
    /\ current_state' = TRANSFER_STATE_IDLE
    /\ UNCHANGED <<current_block, current_chunk, last_acked_block, waiting_for_ack,
                   block_data, current_block_size>>

\* app_data_transfer_pause: the new state
PauseState ==
    IF current_state \in {TRANSFER_STATE_ACTIVE, TRANSFER_STATE_WAITING_ACK}
    THEN TRANSFER_STATE_PAUSED ELSE current_state

\* app_data_transfer_pause, called on disconnection
app_data_transfer_pause ==
    /\ current_state' = PauseState
    /\ link_tx' = NoTx
    /\ UNCHANGED <<notifications_enabled, mtuVars, current_block, current_chunk,
                   last_acked_block, waiting_for_ack, block_data, current_block_size,
                   pacingVars, linkVars>>

\* app_data_transfer_resume that goes on where the sender was paused
resume_NoRewind ==
    /\ link_tx' = NoTx
    /\ UNCHANGED <<notifications_enabled, mtuVars, pacingVars, linkVars, last_acked_block>>
    /\ IF current_state # TRANSFER_STATE_PAUSED \/ ~notifications_enabled
       THEN UNCHANGED <<current_state, current_block, current_chunk, waiting_for_ack,
                        block_data, current_block_size>>
       ELSE /\ waiting_for_ack' = FALSE
            /\ current_state' = TRANSFER_STATE_ACTIVE
            /\ UNCHANGED <<current_block, current_chunk, block_data, current_block_size>>

\* app_data_transfer_resume, called on reconnection
app_data_transfer_resume ==
    /\ link_tx' = NoTx
    /\ UNCHANGED <<notifications_enabled, mtuVars, pacingVars, linkVars, last_acked_block>>
    /\ IF current_state # TRANSFER_STATE_PAUSED \/ ~notifications_enabled
       THEN UNCHANGED <<current_state, current_block, current_chunk, waiting_for_ack,
                        block_data, current_block_size>>
       ELSE /\ current_block' = last_acked_block
            /\ current_chunk' = 0
            /\ waiting_for_ack' = FALSE
            /\ block_data' = last_acked_block
            /\ current_block_size' = generate_block_data(last_acked_block)
            /\ current_state' = TRANSFER_STATE_ACTIVE

\* case CTRL_CMD_ACK that records the ACK and goes on waiting
AckEffect_KeepWaiting(block_number) ==
    /\ UNCHANGED <<current_block, current_chunk, block_data, current_block_size,
                   waiting_for_ack, current_state>>
    /\ last_acked_block' = IF block_number >= last_acked_block
                           THEN U16(block_number + 1) ELSE last_acked_block

\* case CTRL_CMD_ACK of app_data_transfer_control_write_handler
AckEffect(block_number) ==
    /\ UNCHANGED <<current_block, current_chunk, block_data, current_block_size>>
    /\ IF block_number >= last_acked_block
       THEN /\ last_acked_block' = U16(block_number + 1)
            /\ IF waiting_for_ack
               THEN /\ waiting_for_ack' = FALSE
                    /\ current_state' = TRANSFER_STATE_ACTIVE
               ELSE UNCHANGED <<waiting_for_ack, current_state>>
       ELSE UNCHANGED <<last_acked_block, waiting_for_ack, current_state>>

\* app_data_transfer_control_write_handler: a write of val_len bytes carrying
\* control_msg_t {command, block_number}
app_data_transfer_control_write_handler(val_len, command, block_number) ==
    /\ link_tx' = NoTx
    /\ UNCHANGED <<notifications_enabled, mtuVars, pacingVars, linkVars>>
    /\ IF val_len < CONTROL_MSG_SIZE THEN UNCHANGED protocolVars
       ELSE CASE command = CTRL_CMD_START -> app_data_transfer_start
              [] command = CTRL_CMD_STOP -> app_data_transfer_stop
              [] command = CTRL_CMD_ACK -> AckEffect(block_number)
              [] OTHER -> UNCHANGED protocolVars

\* app_data_transfer_cccd_write_handler
app_data_transfer_cccd_write_handler(enabled) ==
    /\ notifications_enabled' = enabled
    /\ current_state' = IF ~enabled /\ current_state = TRANSFER_STATE_ACTIVE
                        THEN PauseState ELSE current_state
    /\ link_tx' = NoTx
    /\ UNCHANGED <<mtuVars, current_block, current_chunk, last_acked_block,
                   waiting_for_ack, block_data, current_block_size, pacingVars, linkVars>>

\* send_chunk with every chunk of the full payload size
ChunkSizeOf_AlwaysFull(chunk_num) == actual_chunk_size

\* send_chunk: the chunk header it fills for (block_num, chunk_num)
ChunkSizeOf(chunk_num) ==
    LET offset == chunk_num * actual_chunk_size
    IN  IF offset + actual_chunk_size > current_block_size
        THEN U16(current_block_size - offset) ELSE actual_chunk_size

ChunkHeader(block_num, chunk_num) ==
    [sent |-> TRUE,
     block_number |-> block_num,
     chunk_number |-> chunk_num,
     total_chunks |-> ChunksInBlock(current_block_size, actual_chunk_size),
     chunk_size |-> ChunkSizeOf(chunk_num),
     source |-> block_data,
     offset |-> chunk_num * actual_chunk_size]

\* send_chunk's failure branch without the clamp to MAX_DELAY_MS
SendFailed_NoCap(status) ==
    /\ consecutive_send_failures' = U16(consecutive_send_failures + 1)
    /\ consecutive_send_successes' = 0
    /\ current_delay_ms' =
         IF status = WICED_BT_GATT_CONGESTED
            /\ U16(consecutive_send_failures + 1) >= CONGESTION_THRESHOLD
         THEN current_delay_ms + BACKOFF_INCREMENT
         ELSE current_delay_ms
    /\ UNCHANGED linkVars
    /\ link_tx' = NoTx

\* send_chunk, failure branch (status != WICED_BT_GATT_SUCCESS)
SendFailed(status) ==
    /\ consecutive_send_failures' = U16(consecutive_send_failures + 1)
    /\ consecutive_send_successes' = 0
    /\ current_delay_ms' =
         IF status = WICED_BT_GATT_CONGESTED
            /\ U16(consecutive_send_failures + 1) >= CONGESTION_THRESHOLD
         THEN (IF current_delay_ms + BACKOFF_INCREMENT > MAX_DELAY_MS
               THEN MAX_DELAY_MS ELSE current_delay_ms + BACKOFF_INCREMENT)
         ELSE current_delay_ms
    /\ UNCHANGED linkVars
    /\ link_tx' = NoTx

\* send_chunk's success branch with a speed-up that keeps the success
\* counter running
SendAccepted_NoReset(block_num, chunk_num) ==
    LET successes == U16(consecutive_send_successes + 1)
        speedup == successes >= SUCCESS_THRESHOLD /\ current_delay_ms > MIN_DELAY_MS
    IN  /\ consecutive_send_failures' = 0
        /\ consecutive_send_successes' = successes
        /\ current_delay_ms' = IF speedup THEN current_delay_ms - SPEEDUP_DECREMENT
                               ELSE current_delay_ms
        /\ link_tx' = ChunkHeader(block_num, chunk_num)

\* send_chunk, success branch after notification_credits--: the success
\* counters, the speed-up and the packet the link took
SendAccepted(block_num, chunk_num) ==
    LET successes == U16(consecutive_send_successes + 1)
        speedup == successes >= SUCCESS_THRESHOLD /\ current_delay_ms > MIN_DELAY_MS
        lowered == current_delay_ms - SPEEDUP_DECREMENT
    IN  /\ consecutive_send_failures' = 0
        /\ consecutive_send_successes' = IF speedup THEN 0 ELSE successes
        /\ current_delay_ms' = IF speedup
                               THEN (IF lowered < MIN_DELAY_MS THEN MIN_DELAY_MS ELSE lowered)
                               ELSE current_delay_ms
        /\ link_tx' = ChunkHeader(block_num, chunk_num)

\* send_chunk, success branch
SendSucceeded(block_num, chunk_num) ==
    /\ notification_credits' = notification_credits - 1
    /\ link_in_flight' = link_in_flight + 1
    /\ SendAccepted(block_num, chunk_num)

\* AdvanceChunk without the ACK barrier: the sender never waits
AdvanceChunk_NoBarrier ==
    LET next_chunk == U16(current_chunk + 1)
        next_block == U16(current_block + 1)
    IN  IF next_chunk >= ChunksInBlock(current_block_size, actual_chunk_size)
        THEN /\ current_chunk' = 0
             /\ current_block' = next_block
             /\ UNCHANGED <<current_state, waiting_for_ack>>
             /\ IF next_block < TOTAL_BLOCKS
                THEN /\ block_data' = next_block
                     /\ current_block_size' = generate_block_data(next_block)
                ELSE UNCHANGED <<block_data, current_block_size>>
        ELSE /\ current_chunk' = next_chunk
             /\ UNCHANGED <<current_block, current_state, waiting_for_ack,
                            block_data, current_block_size>>

\* app_data_transfer_process_next_chunk after a successful send_chunk
AdvanceChunk ==
    LET next_chunk == U16(current_chunk + 1)
        chunks_in_current_block == ChunksInBlock(current_block_size, actual_chunk_size)
        next_block == U16(current_block + 1)
    IN  IF next_chunk >= chunks_in_current_block
        THEN /\ current_chunk' = 0
             /\ current_block' = next_block
             /\ IF (next_block % ACK_INTERVAL) = 0 /\ next_block < TOTAL_BLOCKS
                THEN /\ current_state' = TRANSFER_STATE_WAITING_ACK
                     /\ waiting_for_ack' = TRUE
                ELSE UNCHANGED <<current_state, waiting_for_ack>>
             /\ IF next_block < TOTAL_BLOCKS
                THEN /\ block_data' = next_block
                     /\ current_block_size' = generate_block_data(next_block)
                ELSE UNCHANGED <<block_data, current_block_size>>
        ELSE /\ current_chunk' = next_chunk
             /\ UNCHANGED <<current_block, current_state, waiting_for_ack,
                            block_data, current_block_size>>

\* app_data_transfer_process_next_chunk with a send_chunk that does not
\* look at the credits
process_next_chunk_NoCreditCheck(status) ==
    /\ UNCHANGED <<notifications_enabled, mtuVars, last_acked_block>>
    /\ IF current_state # TRANSFER_STATE_ACTIVE \/ waiting_for_ack
       THEN /\ UNCHANGED <<protocolVars, pacingVars, linkVars>>
            /\ link_tx' = NoTx
       ELSE IF current_block >= TOTAL_BLOCKS
       THEN /\ current_state' = TRANSFER_STATE_COMPLETE
            /\ UNCHANGED <<current_block, current_chunk, waiting_for_ack, block_data,
                           current_block_size, pacingVars, linkVars>>
            /\ link_tx' = NoTx
       ELSE IF status # WICED_BT_GATT_SUCCESS
       THEN /\ SendFailed(status)
            /\ UNCHANGED protocolVars
       ELSE /\ SendSucceeded(current_block, current_chunk)
            /\ AdvanceChunk

\* app_data_transfer_process_next_chunk that moves on to the next chunk
\* whether or not the link took the current one
process_next_chunk_AdvanceOnFailure(status) ==
    /\ UNCHANGED <<notifications_enabled, mtuVars, last_acked_block>>
    /\ IF current_state # TRANSFER_STATE_ACTIVE \/ waiting_for_ack
       THEN /\ UNCHANGED <<protocolVars, pacingVars, linkVars>>
            /\ link_tx' = NoTx
       ELSE IF current_block >= TOTAL_BLOCKS
       THEN /\ current_state' = TRANSFER_STATE_COMPLETE
            /\ UNCHANGED <<current_block, current_chunk, waiting_for_ack, block_data,
                           current_block_size, pacingVars, linkVars>>
            /\ link_tx' = NoTx
       ELSE IF notification_credits <= 0
       THEN /\ UNCHANGED <<protocolVars, pacingVars, linkVars>>
            /\ link_tx' = NoTx
       ELSE IF status # WICED_BT_GATT_SUCCESS
       THEN /\ SendFailed(status)
            /\ AdvanceChunk
       ELSE /\ SendSucceeded(current_block, current_chunk)
            /\ AdvanceChunk

\* the value app_data_transfer_process_next_chunk returns when called in
\* the current state: true tells data_transfer_task the transfer is active
process_next_chunk_result ==
    IF current_state # TRANSFER_STATE_ACTIVE THEN FALSE
    ELSE IF waiting_for_ack THEN TRUE
    ELSE current_block < TOTAL_BLOCKS

\* app_data_transfer_process_next_chunk without the test of current_state
process_next_chunk_NoStateCheck(status) ==
    /\ UNCHANGED <<notifications_enabled, mtuVars, last_acked_block>>
    /\ IF waiting_for_ack
       THEN /\ UNCHANGED <<protocolVars, pacingVars, linkVars>>
            /\ link_tx' = NoTx
       ELSE IF current_block >= TOTAL_BLOCKS
       THEN /\ current_state' = TRANSFER_STATE_COMPLETE
            /\ UNCHANGED <<current_block, current_chunk, waiting_for_ack, block_data,
                           current_block_size, pacingVars, linkVars>>
            /\ link_tx' = NoTx
       ELSE IF notification_credits <= 0
       THEN /\ UNCHANGED <<protocolVars, pacingVars, linkVars>>
            /\ link_tx' = NoTx
       ELSE IF status # WICED_BT_GATT_SUCCESS
       THEN /\ SendFailed(status)
            /\ UNCHANGED protocolVars
       ELSE /\ SendSucceeded(current_block, current_chunk)
            /\ AdvanceChunk

\* app_data_transfer_process_next_chunk: one pass of the loop of
\* data_transfer_task; status is what wiced_bt_gatt_server_send_notification
\* returns if send_chunk gets as far as calling it.
app_data_transfer_process_next_chunk(status) ==
    /\ UNCHANGED <<notifications_enabled, mtuVars, last_acked_block>>
    /\ IF current_state # TRANSFER_STATE_ACTIVE \/ waiting_for_ack
       THEN /\ UNCHANGED <<protocolVars, pacingVars, linkVars>>
            /\ link_tx' = NoTx
       ELSE IF current_block >= TOTAL_BLOCKS
       THEN /\ current_state' = TRANSFER_STATE_COMPLETE
            /\ UNCHANGED <<current_block, current_chunk, waiting_for_ack, block_data,
                           current_block_size, pacingVars, linkVars>>
            /\ link_tx' = NoTx
       ELSE IF notification_credits <= 0
       THEN /\ UNCHANGED <<protocolVars, pacingVars, linkVars>>
            /\ link_tx' = NoTx
       ELSE IF status # WICED_BT_GATT_SUCCESS
       THEN /\ SendFailed(status)
            /\ UNCHANGED protocolVars
       ELSE /\ SendSucceeded(current_block, current_chunk)
            /\ AdvanceChunk

\* app_data_transfer_process_next_chunk from its entry to the return of
\* send_chunk: the checks, the completion, the send
process_next_chunk_send_chunk(status) ==
    /\ UNCHANGED <<notifications_enabled, mtuVars, last_acked_block>>
    /\ IF current_state # TRANSFER_STATE_ACTIVE \/ waiting_for_ack
       THEN /\ UNCHANGED <<protocolVars, pacingVars, linkVars>>
            /\ link_tx' = NoTx
       ELSE IF current_block >= TOTAL_BLOCKS
       THEN /\ current_state' = TRANSFER_STATE_COMPLETE
            /\ UNCHANGED <<current_block, current_chunk, waiting_for_ack, block_data,
                           current_block_size, pacingVars, linkVars>>
            /\ link_tx' = NoTx
       ELSE IF notification_credits <= 0
       THEN /\ UNCHANGED <<protocolVars, pacingVars, linkVars>>
            /\ link_tx' = NoTx
       ELSE IF status # WICED_BT_GATT_SUCCESS
       THEN /\ SendFailed(status)
            /\ UNCHANGED protocolVars
       ELSE /\ SendSucceeded(current_block, current_chunk)
            /\ UNCHANGED protocolVars

\* app_data_transfer_process_next_chunk behind a successful send_chunk:
\* "Move to next chunk" to the return
process_next_chunk_advance ==
    /\ AdvanceChunk
    /\ link_tx' = NoTx
    /\ UNCHANGED <<notifications_enabled, mtuVars, last_acked_block, pacingVars, linkVars>>

\* app_data_transfer_notification_sent without the test against
\* MAX_NOTIFICATIONS_IN_FLIGHT
notification_sent_NoCap ==
    /\ notification_credits' = notification_credits + 1
    /\ link_tx' = NoTx
    /\ UNCHANGED <<protocolVars, notifications_enabled, mtuVars, last_acked_block, pacingVars>>

\* app_data_transfer_notification_sent, which app_bt_gatt_event_callback
\* calls on every GATT_APP_BUFFER_TRANSMITTED_EVT
app_data_transfer_notification_sent ==
    /\ notification_credits' = IF notification_credits < MAX_NOTIFICATIONS_IN_FLIGHT
                               THEN notification_credits + 1 ELSE notification_credits
    /\ link_tx' = NoTx
    /\ UNCHANGED <<protocolVars, notifications_enabled, mtuVars, last_acked_block, pacingVars>>

\* app_data_transfer_process_next_chunk sending a chunk while the GATT
\* callback runs app_data_transfer_notification_sent in the BT stack's
\* context.  notification_credits-- and notification_credits++ are each a
\* load and a store of the volatile int16_t; when they overlap, one of the
\* two updates is lost: credits_after is the value the later store leaves.
\* buffers_sent: data notifications the event reports transmitted (0 when
\* the transmitted buffer was not a data notification).
process_next_chunk_during_notification_sent(credits_after, buffers_sent) ==
    /\ current_state = TRANSFER_STATE_ACTIVE
    /\ ~waiting_for_ack
    /\ current_block < TOTAL_BLOCKS
    /\ notification_credits > 0
    /\ notification_credits < MAX_NOTIFICATIONS_IN_FLIGHT
    /\ credits_after \in {notification_credits - 1, notification_credits + 1}
    /\ notification_credits' = credits_after
    /\ link_in_flight' = link_in_flight + 1 - buffers_sent
    /\ SendAccepted(current_block, current_chunk)
    /\ AdvanceChunk
    /\ UNCHANGED <<notifications_enabled, mtuVars, last_acked_block>>

\* the link model: it buffers at most LinkCapacity data notifications, and
\* runs of equal results are bounded
LinkMay(status) ==
    IF status = WICED_BT_GATT_SUCCESS
    THEN consecutive_send_successes < MaxSendSuccesses /\ link_in_flight < LinkCapacity
    ELSE consecutive_send_failures < MaxSendFailures

(***************************************************************************)
(* Receiver: src/shared_driver/src/transfer_session.cpp                    *)
(***************************************************************************)
EmptyMap == [k \in {} |-> <<>>]
MapRemove(m, k) == [j \in DOMAIN m \ {k} |-> m[j]]

RECURSIVE FromLE(_, _, _)
\* data[off] | data[off+1] << 8 | ... over n bytes (off is 0-based)
FromLE(data, off, n) ==
    IF n = 0 THEN 0 ELSE data[off + 1] + 256 * FromLE(data, off + 1, n - 1)

\* parse_waveform_header: the fields it assigns; crc32 as its four bytes
parse_waveform_header(data) ==
    [block_number |-> FromLE(data, 0, 4),
     timestamp_ms |-> FromLE(data, 4, 4),
     sample_rate_hz |-> FromLE(data, 8, 4),
     sample_count |-> FromLE(data, 12, 2),
     trigger_sample |-> FromLE(data, 16, 2),
     pulse_freq_hz |-> FromLE(data, 18, 4),
     temperature_cx10 |-> LET t == FromLE(data, 26, 2)
                          IN  IF t >= 32768 THEN t - UINT16_MOD ELSE t,
     gain_db |-> data[29],
     crc32 |-> SubSeq(data, 31, 34)]

\* unpack_24bit_samples
unpack_24bit_samples(sample_data, sample_count) ==
    [i \in 1 .. sample_count |-> unpack_24bit_sample(sample_data, (i - 1) * 3)]

Decoded(ok, hdr, smp) == [success |-> ok, header |-> hdr, samples |-> smp]
DecodeFailed == Decoded(FALSE, <<>>, <<>>)

\* process_uncompressed_block
process_uncompressed_block(block, block_size) ==
    IF block_size < WAVEFORM_HEADER_SIZE + WAVEFORM_RAW_DATA_SIZE THEN DecodeFailed
    ELSE Decoded(TRUE, parse_waveform_header(block),
                 unpack_24bit_samples(SubSeq(block, WAVEFORM_HEADER_SIZE + 1, block_size),
                                      SAMPLES_PER_WAVEFORM))

RECURSIVE Adler(_, _, _, _)
\* zlib's Adler-32 of data[i..], as <<b, a>> (the two 16-bit halves)
Adler(data, i, a, b) ==
    IF i > Len(data) THEN <<b, a>>
    ELSE LET a1 == (a + data[i]) % 65521
         IN  Adler(data, i + 1, a1, (b + a1) % 65521)

\* a zlib stream holding data in one stored deflate block
ZlibStored(data) ==
    LET sum == Adler(data, 1, 1, 0)
    IN  <<120, 1, 1>> \o LE(Len(data), 2) \o LE(65535 - Len(data), 2) \o data
        \o <<sum[1] \div 256, sum[1] % 256, sum[2] \div 256, sum[2] % 256>>

\* zlib uncompress(dest, &destLen, source, sourceLen) with destLen = capacity.
\* Streams of one stored block are inflated; every other byte string the
\* model feeds is not a zlib stream and gives Z_DATA_ERROR or Z_BUF_ERROR.
uncompress(source, capacity) ==
    LET n == Len(source)
        len == IF n >= 7 THEN FromLE(source, 3, 2) ELSE 0
        wellFormed == /\ n >= 11
                      /\ SubSeq(source, 1, 3) = <<120, 1, 1>>
                      /\ FromLE(source, 5, 2) = 65535 - len
                      /\ n = len + 11
                      /\ len <= capacity
                      /\ source = ZlibStored(SubSeq(source, 8, 7 + len))
    IN  IF wellFormed THEN [ok |-> TRUE, out |-> SubSeq(source, 8, 7 + len)]
        ELSE [ok |-> FALSE, out |-> <<>>]

RECURSIVE DeltaDecode(_, _, _)
\* the delta loop of decompress_waveform: prev_sample += (int16_t) delta
DeltaDecode(buffer, i, prev_sample) ==
    IF 2 * i > Len(buffer) THEN <<>>
    ELSE LET u == FromLE(buffer, 2 * i - 2, 2)
             delta == IF u >= 32768 THEN u - UINT16_MOD ELSE u
         IN  <<prev_sample + delta>> \o DeltaDecode(buffer, i + 1, prev_sample + delta)

\* decompress_waveform
decompress_waveform(compressed_data) ==
    LET expected_decompressed_size == SAMPLES_PER_WAVEFORM * 2
        r == uncompress(compressed_data, expected_decompressed_size)
    IN  IF ~r.ok \/ Len(r.out) # expected_decompressed_size
        THEN [ok |-> FALSE, samples |-> <<>>]
        ELSE [ok |-> TRUE, samples |-> DeltaDecode(r.out, 1, 0)]

\* process_compressed_block
process_compressed_block(block, block_size) ==
    IF block_size < WAVEFORM_HEADER_SIZE THEN DecodeFailed
    ELSE LET header == parse_waveform_header(block)
             d == decompress_waveform(SubSeq(block, WAVEFORM_HEADER_SIZE + 1, block_size))
         IN  IF ~d.ok THEN DecodeFailed
             ELSE IF calculate_crc32_samples(d.samples) # header.crc32 THEN DecodeFailed
             ELSE Decoded(TRUE, header, d.samples)

\* transfer_session_get_stats, the fields that do not depend on the clock
transfer_session_get_stats(blocks, bytes, chunks) ==
    [blocks_received |-> Cardinality(DOMAIN blocks),
     total_blocks |-> TOTAL_BLOCKS,
     total_bytes_received |-> bytes,
     total_chunks_received |-> chunks]

NoCall == [called |-> FALSE]
\* what one call of transfer_session_process_chunk returned and called back
CallRecord(data, ret, waveform, ack, progress, completion) ==
    [called |-> TRUE, data |-> data, ret |-> ret, waveform |-> waveform,
     ack |-> ack, progress |-> progress, completion |-> completion]

\* transfer_session_create
ReceiverInit ==
    /\ is_active = FALSE
    /\ received_blocks = EmptyMap
    /\ block_chunks = EmptyMap
    /\ block_expected_chunks = EmptyMap
    /\ total_bytes_received = 0
    /\ total_chunks_received = 0
    /\ rx_started = FALSE
    /\ rx_calls = NoCall
    /\ waveform_calls = <<>>
    /\ completion_calls = 0

\* transfer_session_start
transfer_session_start ==
    /\ is_active' = TRUE
    /\ received_blocks' = EmptyMap
    /\ block_chunks' = EmptyMap
    /\ block_expected_chunks' = EmptyMap
    /\ total_bytes_received' = 0
    /\ total_chunks_received' = 0
    /\ rx_started' = TRUE
    /\ rx_calls' = NoCall
    /\ waveform_calls' = <<>>
    /\ completion_calls' = 0

\* transfer_session_stop
transfer_session_stop ==
    /\ is_active' = FALSE
    /\ UNCHANGED <<received_blocks, block_chunks, block_expected_chunks,
                   total_bytes_received, total_chunks_received,
                   rx_started, rx_calls, waveform_calls, completion_calls>>

RECURSIVE Reassemble(_, _, _)
\* the reassembly loop: chunks[i] for i < total_chunks, where operator[]
\* yields an empty vector for an index that was never stored
Reassemble(chunks, i, total_chunks) ==
    IF i >= total_chunks THEN <<>>
    ELSE (IF i \in DOMAIN chunks THEN chunks[i] ELSE <<>>)
         \o Reassemble(chunks, i + 1, total_chunks)

\* transfer_session_process_chunk, the early returns
RejectChunk(data) ==
    /\ rx_calls' = CallRecord(data, FALSE, <<>>, <<>>, <<>>, <<>>)
    /\ UNCHANGED <<is_active, received_blocks, block_chunks, block_expected_chunks,
                   total_bytes_received, total_chunks_received,
                   rx_started, waveform_calls, completion_calls>>

\* the decode step of transfer_session_process_chunk: the heuristic and
\* the two block processors
DecodeBlock(block) ==
    IF Len(block) < BLOCK_SIZE THEN process_compressed_block(block, Len(block))
    ELSE process_uncompressed_block(block, Len(block))

\* int16_t deltas of the samples, little-endian: what the compressed path
\* of a sender deflates
RECURSIVE DeltaEncode(_, _, _)
DeltaEncode(samples, i, prev_sample) ==
    IF i > Len(samples) THEN <<>>
    ELSE LE((samples[i] - prev_sample + UINT16_MOD) % UINT16_MOD, 2)
         \o DeltaEncode(samples, i + 1, samples[i])

\* blocks a peer can present to the receiver
RawBlock(b) == BlockBytes(b)
PaddedBlock(b) == BlockBytes(b) \o [i \in 1 .. BLOCK_SIZE - Len(BlockBytes(b)) |-> 0]
CompressedBlock(b) ==
    HeaderWithCrc(b, calculate_crc32_samples(SourceSamples(b)))
    \o ZlibStored(DeltaEncode(SourceSamples(b), 1, 0))
BadCrcBlock(b) ==
    HeaderWithCrc(b, <<0, 0, 0, 0>>) \o ZlibStored(DeltaEncode(SourceSamples(b), 1, 0))
ShortBlock(b) == SubSeq(BlockBytes(b), 1, WAVEFORM_HEADER_SIZE - 1)

\* the blocks the frames of the specifications carry, and what the decode
\* step makes of each, worked out once
KnownBlocks ==
    SessionBlocks \o <<PaddedBlock(0), PaddedBlock(1), CompressedBlock(2),
                       BadCrcBlock(2), ShortBlock(0)>>
RECURSIVE DecodeAll(_)
DecodeAll(i) ==
    IF i > Len(KnownBlocks) THEN <<>>
    ELSE <<DecodeBlock(KnownBlocks[i])>> \o DecodeAll(i + 1)
KnownDecodes == DecodeAll(1)

\* DecodeBlock(block), looked up where the block is one of KnownBlocks
DecodeResult(block) ==
    LET known == {i \in 1 .. Len(KnownBlocks) : KnownBlocks[i] = block}
    IN  IF known = {} THEN DecodeBlock(block)
        ELSE KnownDecodes[CHOOSE i \in known : TRUE]

\* "Mark block as received" with the ACK asked for on the blocks whose
\* number is a multiple of ACK_INTERVAL
MarkReceived_AckOnMultiple(data, block_number, blocks, waveform, stats) ==
    LET should_ack == block_number % ACK_INTERVAL = 0
        finished == Cardinality(DOMAIN blocks) = TOTAL_BLOCKS
    IN  /\ received_blocks' = blocks
        /\ block_chunks' = MapRemove(block_chunks, block_number)
        /\ block_expected_chunks' = MapRemove(block_expected_chunks, block_number)
        /\ waveform_calls' = waveform_calls \o waveform
        /\ is_active' = IF finished THEN FALSE ELSE is_active
        /\ completion_calls' = completion_calls + (IF finished THEN 1 ELSE 0)
        /\ rx_calls' = CallRecord(data, TRUE, waveform,
                                  IF should_ack THEN <<block_number>> ELSE <<>>,
                                  <<stats>>,
                                  IF finished THEN <<stats>> ELSE <<>>)

\* transfer_session_process_chunk from "Mark block as received" on, with
\* the waveform callback before it; waveform: the callback's arguments, if any
MarkReceived(data, block_number, blocks, waveform, stats) ==
    LET should_ack == block_number > 0 /\ (block_number + 1) % ACK_INTERVAL = 0
        finished == Cardinality(DOMAIN blocks) = TOTAL_BLOCKS
    IN  /\ received_blocks' = blocks
        /\ block_chunks' = MapRemove(block_chunks, block_number)
        /\ block_expected_chunks' = MapRemove(block_expected_chunks, block_number)
        /\ waveform_calls' = waveform_calls \o waveform
        /\ is_active' = IF finished THEN FALSE ELSE is_active
        /\ completion_calls' = completion_calls + (IF finished THEN 1 ELSE 0)
        /\ rx_calls' = CallRecord(data, TRUE, waveform,
                                  IF should_ack THEN <<block_number>> ELSE <<>>,
                                  <<stats>>,
                                  IF finished THEN <<stats>> ELSE <<>>)

\* the arguments of the waveform callback for a decoded block, if it is called
WaveformCall(is_compressed, decoded) ==
    IF decoded.success
    THEN <<[is_compressed |-> is_compressed,
            header |-> decoded.header, samples |-> decoded.samples]>>
    ELSE <<>>

\* transfer_session_process_chunk once the block is found complete
CompleteBlock(data, block_number, block) ==
    MarkReceived(data, block_number, (block_number :> block) @@ received_blocks,
                 WaveformCall(Len(block) < BLOCK_SIZE, DecodeResult(block)),
                 transfer_session_get_stats((block_number :> block) @@ received_blocks,
                                            total_bytes_received', total_chunks_received'))

\* transfer_session_process_chunk for a frame that passes the two checks;
\* beyond: the value of a byte read past the end of the frame
StoreChunk(data, beyond) ==
    LET block_number == FromLE(data, 0, 2)
        chunk_number == FromLE(data, 2, 2)
        chunk_size == FromLE(data, 4, 2)
        total_chunks == FromLE(data, 6, 2)
        chunk_data == [i \in 1 .. chunk_size |->
                         IF CHUNK_HEADER_SIZE + i <= Len(data)
                         THEN data[CHUNK_HEADER_SIZE + i] ELSE beyond]
        fresh == block_number \notin DOMAIN block_chunks
        chunks == (chunk_number :> chunk_data)
                  @@ (IF fresh THEN EmptyMap ELSE block_chunks[block_number])
    IN  /\ total_chunks_received' = total_chunks_received + 1
        /\ total_bytes_received' = total_bytes_received + chunk_size
        /\ UNCHANGED rx_started
        /\ IF Cardinality(DOMAIN chunks) = total_chunks
           THEN CompleteBlock(data, block_number, Reassemble(chunks, 0, total_chunks))
           ELSE /\ block_chunks' = (block_number :> chunks) @@ block_chunks
                /\ block_expected_chunks' =
                      IF fresh THEN (block_number :> total_chunks) @@ block_expected_chunks
                      ELSE block_expected_chunks
                /\ rx_calls' = CallRecord(data, TRUE, <<>>, <<>>, <<>>, <<>>)
                /\ UNCHANGED <<is_active, received_blocks, waveform_calls, completion_calls>>

\* transfer_session_process_chunk without the block_number range check
process_chunk_NoRangeCheck(data, beyond) ==
    IF Len(data) < CHUNK_HEADER_SIZE THEN RejectChunk(data)
    ELSE StoreChunk(data, beyond)

\* transfer_session_process_chunk(session, data, length) with all four
\* callbacks registered
transfer_session_process_chunk(data, beyond) ==
    IF Len(data) < CHUNK_HEADER_SIZE THEN RejectChunk(data)
    ELSE IF FromLE(data, 0, 2) >= TOTAL_BLOCKS THEN RejectChunk(data)
    ELSE StoreChunk(data, beyond)

(***************************************************************************)
(* Frames on the data characteristic.                                      *)
(***************************************************************************)
\* chunk_header_t followed by the payload, as send_chunk lays a packet out
ChunkFrame(block_number, chunk_number, total_chunks, block_size_total, payload) ==
    LE(block_number, 2) \o LE(chunk_number, 2) \o LE(Len(payload), 2)
    \o LE(total_chunks, 2) \o LE(block_size_total, 2) \o <<0, 0>> \o payload

\* block_data[i] (0-based) while the buffer holds block source; the bytes
\* behind the block are the zeroes of the static buffer
BufferByte(source, i) ==
    IF source >= 0 /\ i < Len(BlockBytes(source)) THEN BlockBytes(source)[i + 1] ELSE 0

\* the packet send_chunk hands to the link for the chunk tx describes
PacketOf(tx) ==
    ChunkFrame(tx.block_number, tx.chunk_number, tx.total_chunks, current_block_size,
               [i \in 1 .. tx.chunk_size |-> BufferByte(tx.source, tx.offset + i - 1)])

WholeFrame(b, block) == ChunkFrame(b, 0, 1, Len(block), block)
HalfLen(block) == Len(block) \div 2

\* the frames the receiver is fed under SpecReceiver
Frames ==
    {WholeFrame(b, RawBlock(b)) : b \in 0 .. TOTAL_BLOCKS - 1}
    \cup {WholeFrame(1, PaddedBlock(1)),
          WholeFrame(2, CompressedBlock(2)),
          WholeFrame(2, BadCrcBlock(2)),
          WholeFrame(0, ShortBlock(0)),
          \* block 0 in two chunks, and a chunk of it with an index past the total
          ChunkFrame(0, 0, 2, BLOCK_SIZE, SubSeq(PaddedBlock(0), 1, HalfLen(PaddedBlock(0)))),
          ChunkFrame(0, 1, 2, BLOCK_SIZE,
                     SubSeq(PaddedBlock(0), HalfLen(PaddedBlock(0)) + 1, BLOCK_SIZE)),
          ChunkFrame(0, 2, 2, BLOCK_SIZE, <<7>>),
          \* a frame cut off behind the first of the two payload bytes its
          \* header announces
          SubSeq(ChunkFrame(0, 2, 2, BLOCK_SIZE, <<7, 7>>), 1, CHUNK_HEADER_SIZE + 1),
          \* a frame shorter than the chunk header, a block number out of range
          SubSeq(WholeFrame(0, RawBlock(0)), 1, CHUNK_HEADER_SIZE - 1),
          WholeFrame(TOTAL_BLOCKS, RawBlock(0))}

\* chunks fed to one receiver session under SpecReceiver
MaxChunksFed == TOTAL_BLOCKS + 1
\* values of a byte the receiver reads behind the end of a frame
BeyondBytes == {0, 255}
\* the payload size the header of the frame data announces
AnnouncedSize(data) == FromLE(data, 4, 2)
\* the values of the bytes behind the frame data that a call can see: the
\* call reads them only if the header announces more than the frame holds
BeyondOf(data) ==
    IF Len(data) >= CHUNK_HEADER_SIZE
       /\ AnnouncedSize(data) > Len(data) - CHUNK_HEADER_SIZE
    THEN BeyondBytes ELSE {0}
\* chunk payload sizes of the round trip: 1 .. one more than a raw block
ChunkPayloadSizes == 1 .. (WAVEFORM_HEADER_SIZE + WAVEFORM_RAW_DATA_SIZE + 1)

\* no connection, the task not yet in process_next_chunk
WiringInit ==
    /\ app_bt_conn_id = 0
    /\ task_pc = "call"

\* nothing handed to the packing
CodecInit ==
    /\ waveform_samples = <<>>
    /\ packed_samples = <<>>
    /\ unpacked_samples = <<>>

Init == SenderInit /\ ReceiverInit /\ WiringInit /\ CodecInit

(***************************************************************************)
(* The sender and its events (Spec).                                       *)
(***************************************************************************)
ControlWrite ==
    /\ \E m \in ControlMessages :
          app_data_transfer_control_write_handler(m.val_len, m.command, m.block_number)
    /\ UNCHANGED <<receiverVars, wiringVars, codecVars>>
CccdWrite ==
    /\ \E en \in BOOLEAN : app_data_transfer_cccd_write_handler(en)
    /\ UNCHANGED <<receiverVars, wiringVars, codecVars>>
MtuExchange ==
    /\ \E m \in MtuValues : app_data_transfer_set_mtu(m)
    /\ UNCHANGED <<receiverVars, wiringVars, codecVars>>
Disconnect == app_data_transfer_pause /\ UNCHANGED <<receiverVars, wiringVars, codecVars>>
Reconnect == app_data_transfer_resume /\ UNCHANGED <<receiverVars, wiringVars, codecVars>>
Tick ==
    /\ \E st \in LinkStatuses : LinkMay(st) /\ app_data_transfer_process_next_chunk(st)
    /\ UNCHANGED <<receiverVars, wiringVars, codecVars>>
\* GATT_APP_BUFFER_TRANSMITTED_EVT for a data notification the link held
TransmitComplete ==
    /\ link_in_flight > 0
    /\ link_in_flight' = link_in_flight - 1
    /\ app_data_transfer_notification_sent
    /\ UNCHANGED <<receiverVars, wiringVars, codecVars>>
\* GATT_APP_BUFFER_TRANSMITTED_EVT for another buffer: a temperature
\* notification of data_transfer_task, a response buffer
OtherBufferTransmitted ==
    /\ UNCHANGED link_in_flight
    /\ app_data_transfer_notification_sent
    /\ UNCHANGED <<receiverVars, wiringVars, codecVars>>
\* a pass of the sender task overlapping a transmitted event
RacedTick ==
    /\ LinkMay(WICED_BT_GATT_SUCCESS)
    /\ \E credits_after \in 0 .. MAX_NOTIFICATIONS_IN_FLIGHT, buffers_sent \in {0, 1} :
          process_next_chunk_during_notification_sent(credits_after, buffers_sent)
    /\ UNCHANGED <<receiverVars, wiringVars, codecVars>>

Next ==
    \/ ControlWrite
    \/ CccdWrite
    \/ MtuExchange
    \/ Disconnect
    \/ Reconnect
    \/ Tick
    \/ TransmitComplete
    \/ OtherBufferTransmitted
    \/ RacedTick

Spec == Init /\ [][Next]_vars

(***************************************************************************)
(* The firmware as wired (SpecFirmware): the sender reached through the    *)
(* GATT event handlers of app_bt_gatt_handler.c and data_transfer_task.    *)
(***************************************************************************)
\* app_gatt_connect_handler, on GATT_CONNECTION_STATUS_EVT: the connected
\* branch stores the connection id and leaves the data-transfer module
\* alone; the other branch pauses the transfer and clears the id
app_gatt_connect_handler(connected) ==
    IF connected /\ app_bt_conn_id = 0
    THEN /\ app_bt_conn_id' = 1
         /\ link_tx' = NoTx
         /\ UNCHANGED <<notifications_enabled, mtuVars, protocolVars, pacingVars, linkVars>>
    ELSE /\ app_data_transfer_pause
         /\ app_bt_conn_id' = 0

\* the central connects; the peripheral stops advertising while connected
FwConnect ==
    /\ app_bt_conn_id = 0
    /\ app_gatt_connect_handler(TRUE)
    /\ UNCHANGED <<receiverVars, task_pc, codecVars>>
FwDisconnect ==
    /\ app_bt_conn_id # 0
    /\ app_gatt_connect_handler(FALSE)
    /\ UNCHANGED <<receiverVars, task_pc, codecVars>>
\* writes and the MTU exchange of the connected central
FwCccdWrite == app_bt_conn_id # 0 /\ CccdWrite
FwControlWrite == app_bt_conn_id # 0 /\ ControlWrite
FwMtuExchange == app_bt_conn_id # 0 /\ MtuExchange
\* the connected central subscribes to the data characteristic
FwSubscribe ==
    /\ app_bt_conn_id # 0
    /\ app_data_transfer_cccd_write_handler(TRUE)
    /\ UNCHANGED <<receiverVars, wiringVars, codecVars>>
\* a pass of data_transfer_task; without a connection the stack takes no
\* notification
FwTick ==
    /\ \E st \in LinkStatuses :
          /\ LinkMay(st)
          /\ app_bt_conn_id = 0 => st # WICED_BT_GATT_SUCCESS
          /\ app_data_transfer_process_next_chunk(st)
    /\ UNCHANGED <<receiverVars, wiringVars, codecVars>>

NextFirmware ==
    \/ FwConnect
    \/ FwDisconnect
    \/ FwCccdWrite
    \/ FwControlWrite
    \/ FwMtuExchange
    \/ FwTick
    \/ TransmitComplete

\* A central that comes back after every disconnection and subscribes
\* again, the task that keeps calling process_next_chunk, and a stack that
\* reports what it transmitted.
SpecFirmware ==
    /\ Init
    /\ [][NextFirmware]_vars
    /\ WF_vars(FwConnect)
    /\ WF_vars(FwSubscribe)
    /\ WF_vars(FwTick)
    /\ WF_vars(TransmitComplete)

(***************************************************************************)
(* The receiver fed by an arbitrary peer (SpecReceiver).                   *)
(***************************************************************************)
RxStart == transfer_session_start /\ UNCHANGED <<senderVars, wiringVars, codecVars>>
RxStop == is_active /\ transfer_session_stop /\ UNCHANGED <<senderVars, wiringVars, codecVars>>
RxChunk ==
    /\ total_chunks_received < MaxChunksFed
    /\ \E data \in Frames : \E beyond \in BeyondOf(data) :
          transfer_session_process_chunk(data, beyond)
    /\ UNCHANGED <<senderVars, wiringVars, codecVars>>

NextReceiver ==
    \/ RxStart
    \/ RxStop
    \/ RxChunk

SpecReceiver == Init /\ [][NextReceiver]_vars

(***************************************************************************)
(* Sender and receiver over a lossless, in-order link (SpecRoundTrip).     *)
(***************************************************************************)
RtCccd ==
    /\ ~notifications_enabled
    /\ app_data_transfer_cccd_write_handler(TRUE)
    /\ UNCHANGED <<receiverVars, wiringVars, codecVars>>
RtMtu ==
    /\ current_state = TRANSFER_STATE_IDLE
    /\ negotiated_mtu = 23
    /\ \E p \in ChunkPayloadSizes :
          app_data_transfer_set_mtu(p + ATT_OVERHEAD + CHUNK_HEADER_SIZE)
    /\ UNCHANGED <<receiverVars, wiringVars, codecVars>>
RtRxStart ==
    /\ current_state = TRANSFER_STATE_IDLE
    /\ ~is_active
    /\ transfer_session_start
    /\ UNCHANGED <<senderVars, wiringVars, codecVars>>
RtStart ==
    /\ current_state = TRANSFER_STATE_IDLE
    /\ is_active
    /\ app_data_transfer_control_write_handler(CONTROL_MSG_SIZE, CTRL_CMD_START, 0)
    /\ UNCHANGED <<receiverVars, wiringVars, codecVars>>
\* one pass of the sender task while the sender is Active: what it does to
\* the sender
RtTaskPass ==
    /\ current_state = TRANSFER_STATE_ACTIVE
    /\ app_data_transfer_process_next_chunk(WICED_BT_GATT_SUCCESS)
\* one pass of the sender task; a packet the link accepts reaches the receiver
RtSend ==
    /\ RtTaskPass
    /\ IF link_tx'.sent
       THEN transfer_session_process_chunk(PacketOf(link_tx'), 0)
       ELSE UNCHANGED receiverVars
    /\ UNCHANGED <<wiringVars, codecVars>>
RtTransmitted ==
    /\ link_in_flight > 0
    /\ link_in_flight' = link_in_flight - 1
    /\ app_data_transfer_notification_sent
    /\ UNCHANGED <<receiverVars, wiringVars, codecVars>>
\* the embedder writes the ACK the receiver asked for
RtAck ==
    /\ waiting_for_ack
    /\ rx_calls.called
    /\ rx_calls.ack # <<>>
    /\ app_data_transfer_control_write_handler(CONTROL_MSG_SIZE, CTRL_CMD_ACK, rx_calls.ack[1])
    /\ UNCHANGED <<receiverVars, wiringVars, codecVars>>

NextRoundTrip ==
    \/ RtCccd
    \/ RtMtu
    \/ RtRxStart
    \/ RtStart
    \/ RtSend
    \/ RtTransmitted
    \/ RtAck

SpecRoundTrip == Init /\ [][NextRoundTrip]_vars

\* The round trip under the scheduling of the firmware and of a central that
\* keeps up: data_transfer_task calls process_next_chunk again after every
\* delay, the stack reports every notification it accepted as transmitted,
\* and the central writes every ACK the receiver's ack callback asks for.
\* The fairness of the task is stated on RtTaskPass: RtSend is the only
\* action of NextRoundTrip whose steps are RtTaskPass steps, and it is
\* enabled whenever RtTaskPass is, the receiver taking every packet.
SpecRoundTripFair ==
    /\ Init
    /\ [][NextRoundTrip]_vars
    /\ WF_senderVars(RtTaskPass)
    /\ WF_vars(RtTransmitted)
    /\ WF_vars(RtAck)

(***************************************************************************)
(* The round trip with the GATT callback running in the stack's task       *)
(* (SpecInterleaved): the control-write handler can run between the send   *)
(* of a chunk and the rest of process_next_chunk, which data_transfer_task *)
(* runs without a lock or a critical section.                              *)
(***************************************************************************)
\* data_transfer_task enters process_next_chunk and gets to the return of
\* send_chunk; the packet the link accepted reaches the receiver
IlSend ==
    /\ task_pc = "call"
    /\ current_state = TRANSFER_STATE_ACTIVE
    /\ process_next_chunk_send_chunk(WICED_BT_GATT_SUCCESS)
    /\ task_pc' = IF link_tx'.sent THEN "sent" ELSE "call"
    /\ IF link_tx'.sent
       THEN transfer_session_process_chunk(PacketOf(link_tx'), 0)
       ELSE UNCHANGED receiverVars
    /\ UNCHANGED <<app_bt_conn_id, codecVars>>
\* the task goes on behind send_chunk
IlAdvance ==
    /\ task_pc = "sent"
    /\ process_next_chunk_advance
    /\ task_pc' = "call"
    /\ UNCHANGED <<receiverVars, app_bt_conn_id, codecVars>>
\* the central writes the ACK the receiver's ack callback asked for, once
IlAck ==
    /\ rx_calls.called
    /\ rx_calls.ack # <<>>
    /\ rx_calls.ack[1] >= last_acked_block
    /\ app_data_transfer_control_write_handler(CONTROL_MSG_SIZE, CTRL_CMD_ACK, rx_calls.ack[1])
    /\ UNCHANGED <<receiverVars, wiringVars, codecVars>>

NextInterleaved ==
    \/ RtCccd
    \/ RtMtu
    \/ RtRxStart
    \/ RtStart
    \/ IlSend
    \/ IlAdvance
    \/ IlAck
    \/ RtTransmitted

SpecInterleaved == Init /\ [][NextInterleaved]_vars

(***************************************************************************)
(* The sender driven through whole transfers, one after the other, over a  *)
(* link that refuses and accepts sends in long runs (SpecPacing).          *)
(***************************************************************************)
PcEnable ==
    /\ ~notifications_enabled
    /\ app_data_transfer_cccd_write_handler(TRUE)
    /\ UNCHANGED <<receiverVars, wiringVars, codecVars>>
PcStart ==
    /\ current_state \in {TRANSFER_STATE_IDLE, TRANSFER_STATE_COMPLETE}
    /\ notifications_enabled
    /\ app_data_transfer_control_write_handler(CONTROL_MSG_SIZE, CTRL_CMD_START, 0)
    /\ UNCHANGED <<receiverVars, wiringVars, codecVars>>
PcAck ==
    /\ current_state = TRANSFER_STATE_WAITING_ACK
    /\ app_data_transfer_control_write_handler(CONTROL_MSG_SIZE, CTRL_CMD_ACK, current_block - 1)
    /\ UNCHANGED <<receiverVars, wiringVars, codecVars>>
PcSend ==
    /\ current_state = TRANSFER_STATE_ACTIVE
    /\ \E st \in LinkStatuses :
          /\ IF st = WICED_BT_GATT_SUCCESS
             THEN consecutive_send_successes < MaxPacingSuccesses
             ELSE consecutive_send_failures < MaxPacingFailures
          /\ app_data_transfer_process_next_chunk(st)
    /\ UNCHANGED <<receiverVars, wiringVars, codecVars>>
PcTransmitted ==
    /\ link_in_flight > 0
    /\ link_in_flight' = link_in_flight - 1
    /\ app_data_transfer_notification_sent
    /\ UNCHANGED <<receiverVars, wiringVars, codecVars>>

NextPacing ==
    \/ PcEnable
    \/ PcStart
    \/ PcAck
    \/ PcSend
    \/ PcTransmitted

SpecPacing == Init /\ [][NextPacing]_vars

(***************************************************************************)
(* The 24-bit sample packing on its own (SpecSamples): an array of samples *)
(* in the signed 24-bit range is packed as app_waveform_generate packs it  *)
(* and read back by the sender's and by the receiver's unpack.             *)
(***************************************************************************)
\* samples next to the values at which a byte of the packed form changes
SampleEdges == {-8388608, -65536, -32768, -256, -128, 0, 127, 255, 32767, 65535, 8388607}
SampleInputs ==
    {e + d : e \in SampleEdges, d \in -MaxSampleWindow .. MaxSampleWindow}
    \cap (-8388608 .. 8388607)

InitSamples ==
    /\ SenderInit
    /\ ReceiverInit
    /\ WiringInit
    /\ waveform_samples \in [1 .. SamplesPacked -> SampleInputs]
    /\ packed_samples = <<>>
    /\ unpacked_samples = <<>>

\* the packing loop of app_waveform_generate
SamplesPack ==
    /\ packed_samples = <<>>
    /\ packed_samples' = PackSamples(waveform_samples, 1)
    /\ UNCHANGED <<senderVars, receiverVars, wiringVars, waveform_samples, unpacked_samples>>
\* the packed buffer read back by both peers
SamplesUnpack ==
    /\ packed_samples # <<>>
    /\ unpacked_samples = <<>>
    /\ unpacked_samples' =
          [sender |-> [i \in 1 .. SamplesPacked |->
                         app_waveform_unpack_24bit_sample(packed_samples, i - 1)],
           receiver |-> unpack_24bit_samples(packed_samples, SamplesPacked)]
    /\ UNCHANGED <<senderVars, receiverVars, wiringVars, waveform_samples, packed_samples>>

NextSamples ==
    \/ SamplesPack
    \/ SamplesUnpack

SpecSamples == InitSamples /\ [][NextSamples]_vars

(***************************************************************************)
(* Properties of the sender, checked under Spec.                           *)
(***************************************************************************)
\* the step in which the control-write handler processes ACK(b)
AckStep(b) ==
    /\ app_data_transfer_control_write_handler(CONTROL_MSG_SIZE, CTRL_CMD_ACK, b)
    /\ UNCHANGED receiverVars

\* all chunks of blocks 0 .. ACK_INTERVAL-1 sent, nothing acknowledged yet
AtFirstBarrier ==
    /\ current_state = TRANSFER_STATE_WAITING_ACK
    /\ waiting_for_ack
    /\ current_block = ACK_INTERVAL
    /\ current_chunk = 0
    /\ last_acked_block = 0

\* C1: at the first ACK barrier (state WaitingAck, current_block =
\* ACK_INTERVAL, last_acked_block = 0) processing ACK(current_block - 1)
\* makes the sender Active, and processing ACK(b) for any b below
\* current_block - 1 leaves it in WaitingAck.
C1_AckBarrier ==
    [][\A b \in AckValues :
          (AtFirstBarrier /\ AckStep(b)) =>
              /\ (b = current_block - 1 => current_state' = TRANSFER_STATE_ACTIVE)
              /\ (b < current_block - 1 => current_state' = TRANSFER_STATE_WAITING_ACK)]_vars

\* a successful send that finishes a block on a multiple of ACK_INTERVAL
\* below TOTAL_BLOCKS
FinishesBarrierBlock ==
    /\ link_tx'.sent
    /\ current_block' = current_block + 1
    /\ current_block' % ACK_INTERVAL = 0
    /\ current_block' < TOTAL_BLOCKS

\* a pass of the sender task
TickStep ==
    /\ \E st \in LinkStatuses : app_data_transfer_process_next_chunk(st)
    /\ UNCHANGED receiverVars

\* C2: the sender enters WaitingAck exactly in the step in which a
\* successful send finishes a block and the incremented current_block is a
\* multiple of ACK_INTERVAL below TOTAL_BLOCKS; no step taken in WaitingAck
\* hands a chunk to the link, and a pass of the sender task taken in
\* WaitingAck changes nothing of the protocol state, however many follow.
C2_WaitingAckEntry ==
    [][/\ (current_state # TRANSFER_STATE_WAITING_ACK
           /\ current_state' = TRANSFER_STATE_WAITING_ACK) <=> FinishesBarrierBlock
       /\ FinishesBarrierBlock => waiting_for_ack'
       /\ current_state = TRANSFER_STATE_WAITING_ACK => ~link_tx'.sent
       /\ (current_state = TRANSFER_STATE_WAITING_ACK /\ TickStep)
             => UNCHANGED <<protocolVars, linkVars>>]_vars

\* the sender has just sent the last chunk of block ACK_INTERVAL-1 and waits
C2_Witness_Entered ==
    /\ current_state = TRANSFER_STATE_WAITING_ACK
    /\ waiting_for_ack
    /\ link_tx.sent
    /\ link_tx.block_number = ACK_INTERVAL - 1
    /\ link_tx.chunk_number = link_tx.total_chunks - 1
    /\ current_block = ACK_INTERVAL
    /\ current_chunk = 0

\* C3: in every reachable state 0 <= last_acked_block <= current_block <=
\* TOTAL_BLOCKS.
C3_AckedBelowCurrent ==
    /\ 0 <= last_acked_block
    /\ last_acked_block <= current_block
    /\ current_block <= TOTAL_BLOCKS

\* a START has been processed and no STOP since
InSession == current_state # TRANSFER_STATE_IDLE

\* C4: in a session, processing ACK(b), b any 16-bit block number, never
\* lowers last_acked_block, and for b < last_acked_block it changes neither
\* last_acked_block nor the state.
C4_AckMonotone ==
    [][\A b \in AckValues :
          (InSession /\ AckStep(b)) =>
              /\ last_acked_block' >= last_acked_block
              /\ (b < last_acked_block => UNCHANGED <<last_acked_block, current_state>>)]_vars

\* C13: in every reachable state 0 <= notification_credits <=
\* MAX_NOTIFICATIONS_IN_FLIGHT, whatever the order of successful sends,
\* transmitted events and sends that overlap a transmitted event.
C13_CreditsInRange ==
    /\ 0 <= notification_credits
    /\ notification_credits <= MAX_NOTIFICATIONS_IN_FLIGHT

\* a send has just taken the last credit after transmitted events handed
\* out more credits than data notifications were transmitted
C13_Witness_LastCredit ==
    /\ link_tx.sent
    /\ notification_credits = 0
    /\ link_in_flight > MAX_NOTIFICATIONS_IN_FLIGHT

\* C14: the data notifications the link has accepted and not yet reported
\* transmitted never number more than MAX_NOTIFICATIONS_IN_FLIGHT.
C14_InFlightBound == link_in_flight <= MAX_NOTIFICATIONS_IN_FLIGHT

\* the sender task would send, and no credit is left
Starved ==
    /\ current_state = TRANSFER_STATE_ACTIVE
    /\ ~waiting_for_ack
    /\ current_block < TOTAL_BLOCKS
    /\ notification_credits = 0

\* C15: every send takes exactly one of the credits, so MAX_NOTIFICATIONS_IN_FLIGHT
\* credits give that many sends; a pass of the sender task taken without a
\* credit sends nothing, leaves current_block, current_chunk, the state and
\* the credits unchanged and returns true; a transmitted event for a data
\* notification arriving then leaves exactly one credit.
C15_CreditStarvation ==
    [][/\ (TickStep /\ link_tx'.sent) =>
             /\ notification_credits > 0
             /\ notification_credits' = notification_credits - 1
       /\ (TickStep /\ Starved) =>
             /\ ~link_tx'.sent
             /\ process_next_chunk_result
             /\ UNCHANGED <<current_block, current_chunk, current_state,
                            notification_credits>>
       /\ (TransmitComplete /\ notification_credits = 0) =>
             notification_credits' = 1]_vars

\* two sends in a row have used both credits, neither is transmitted, and
\* the sender task has passed without sending
C15_Witness_Starved ==
    /\ Starved
    /\ ~link_tx.sent
    /\ link_in_flight = MAX_NOTIFICATIONS_IN_FLIGHT
    /\ consecutive_send_successes = MAX_NOTIFICATIONS_IN_FLIGHT

\* a pass of the sender task that gets as far as calling the link, which
\* returns status
SendAttempt(status) ==
    /\ current_state = TRANSFER_STATE_ACTIVE
    /\ ~waiting_for_ack
    /\ current_block < TOTAL_BLOCKS
    /\ notification_credits > 0
    /\ app_data_transfer_process_next_chunk(status)
    /\ UNCHANGED receiverVars

\* C18: a send for which the link returns an error other than Congested
\* leaves current_delay_ms, the two consecutive counters, the credits,
\* current_block, current_chunk and the state unchanged.
C18_OtherErrorFrame ==
    [][SendAttempt(WICED_BT_GATT_ERROR) =>
          UNCHANGED <<pacingVars, linkVars, current_block, current_chunk,
                      current_state>>]_vars

\* the position after (current_block, current_chunk) in the order of
\* emission
NextPosition ==
    IF current_chunk + 1 >= ChunksInBlock(current_block_size, actual_chunk_size)
    THEN <<current_block + 1, 0>>
    ELSE <<current_block, current_chunk + 1>>

\* a step that (re)starts the emission: START, or the resume on reconnection
RestartStep ==
    \/ /\ app_data_transfer_control_write_handler(CONTROL_MSG_SIZE, CTRL_CMD_START, 0)
       /\ UNCHANGED receiverVars
    \/ Reconnect

\* C19: a chunk handed to the link is the chunk at (current_block,
\* current_chunk) and moves the position to the next chunk in the order of
\* emission; every other step, unless it (re)starts the emission, leaves
\* the position where it is, whatever the credits and the link's answers:
\* between two (re)starts the chunks go out in increasing (block_number,
\* chunk_number) order, none skipped and none repeated.
C19_EmissionOrder ==
    [][/\ link_tx'.sent =>
             /\ link_tx'.block_number = current_block
             /\ link_tx'.chunk_number = current_chunk
             /\ <<current_block', current_chunk'>> = NextPosition
       /\ (~link_tx'.sent /\ ~RestartStep) =>
             UNCHANGED <<current_block, current_chunk>>]_vars

\* the last chunk of block 1 has just gone out, accepted right after a
\* refused send, with no credit left
C19_Witness_AfterRetry ==
    /\ link_tx.sent
    /\ link_tx.block_number = 1
    /\ link_tx.chunk_number = link_tx.total_chunks - 1
    /\ link_tx.chunk_number > 0
    /\ consecutive_send_successes = 1
    /\ notification_credits = 0
    /\ current_block = 2
    /\ current_chunk = 0

\* C20: app_data_transfer_resume called in Paused with notifications
\* enabled sets current_block to last_acked_block and current_chunk to 0,
\* regenerates that block, clears the ACK wait and makes the state Active,
\* and leaves last_acked_block as it is.
C20_ResumeRewinds ==
    [][(current_state = TRANSFER_STATE_PAUSED /\ notifications_enabled /\ Reconnect) =>
          /\ current_block' = last_acked_block
          /\ current_chunk' = 0
          /\ block_data' = last_acked_block
          /\ ~waiting_for_ack'
          /\ current_state' = TRANSFER_STATE_ACTIVE
          /\ UNCHANGED last_acked_block]_vars

\* the state the resume leaves after ACK(ACK_INTERVAL - 1): Active at chunk
\* 0 of block ACK_INTERVAL, the buffer holding that block, no ACK wait,
\* while notifications of the interrupted emission are still in the link
C20_Witness_Resumed ==
    /\ current_state = TRANSFER_STATE_ACTIVE
    /\ ~waiting_for_ack
    /\ last_acked_block = ACK_INTERVAL
    /\ current_block = ACK_INTERVAL
    /\ current_chunk = 0
    /\ block_data = ACK_INTERVAL
    /\ ~link_tx.sent
    /\ link_in_flight = MAX_NOTIFICATIONS_IN_FLIGHT

\* the steps in which the GATT write handlers process a write of the data
\* characteristic's CCCD, a START and a STOP
CccdStep(enabled) ==
    /\ app_data_transfer_cccd_write_handler(enabled)
    /\ UNCHANGED receiverVars
StartStep ==
    /\ app_data_transfer_control_write_handler(CONTROL_MSG_SIZE, CTRL_CMD_START, 0)
    /\ UNCHANGED receiverVars
StopStep ==
    /\ app_data_transfer_control_write_handler(CONTROL_MSG_SIZE, CTRL_CMD_STOP, 0)
    /\ UNCHANGED receiverVars

\* C22: a CCCD write that disables the notifications while the sender is
\* Active or WaitingAck leaves the sender Paused.
C22_DisablePauses ==
    [][(CccdStep(FALSE)
        /\ current_state \in {TRANSFER_STATE_ACTIVE, TRANSFER_STATE_WAITING_ACK})
          => current_state' = TRANSFER_STATE_PAUSED]_vars

\* C23: every step that hands a chunk to the link is taken with
\* notifications_enabled true.
C23_SendOnlyEnabled == [][link_tx'.sent => notifications_enabled]_vars

\* C24: a STOP leaves the sender Idle whatever the state, and every step
\* taken in Idle that is not a START leaves the sender Idle and hands no
\* chunk to the link.
C24_StopHolds ==
    [][/\ StopStep => current_state' = TRANSFER_STATE_IDLE
       /\ (current_state = TRANSFER_STATE_IDLE /\ ~StartStep) =>
             /\ current_state' = TRANSFER_STATE_IDLE
             /\ ~link_tx'.sent]_vars

\* C25: the step that sends the last chunk of block TOTAL_BLOCKS - 1 leaves
\* the sender Complete, and in no reachable state is the sender Active or
\* Paused with current_block = TOTAL_BLOCKS.
C25_CompleteAtLastChunk ==
    /\ [][(link_tx'.sent /\ current_block' = TOTAL_BLOCKS)
            => current_state' = TRANSFER_STATE_COMPLETE]_vars
    /\ [](current_block = TOTAL_BLOCKS
            => current_state \notin {TRANSFER_STATE_ACTIVE, TRANSFER_STATE_PAUSED})

\* C27: a START processed while notifications are disabled, or while the
\* sender is not Idle, leaves current_block, current_chunk,
\* last_acked_block and the state unchanged.
C27_StartOnlyFromIdle ==
    [][(StartStep /\ ~(current_state = TRANSFER_STATE_IDLE /\ notifications_enabled))
          => UNCHANGED <<current_block, current_chunk, last_acked_block,
                         current_state>>]_vars

\* total_chunks_for_block: the total_chunks send_chunk writes into the
\* header of the next chunk it sends
total_chunks_for_block == ChunksInBlock(current_block_size, actual_chunk_size)

\* C32: whenever the sender is Active, current_chunk is below the number of
\* chunks of the current block, ceil(current_block_size / actual_chunk_size).
C32_ChunkBelowTotal ==
    current_state = TRANSFER_STATE_ACTIVE => current_chunk < total_chunks_for_block

\* the step in which app_data_transfer_set_mtu runs
MtuStep == \E m \in MtuValues : app_data_transfer_set_mtu(m)

\* C34: all chunks of one transmission of a block carry the same
\* total_chunks: an MTU exchange that arrives while the block is partly
\* sent leaves the total_chunks of the chunks still to be sent as it was.
C34_TotalChunksConstant ==
    [][(MtuStep /\ current_state = TRANSFER_STATE_ACTIVE /\ current_chunk > 0)
          => total_chunks_for_block' = total_chunks_for_block]_vars

\* C36: a pass of process_next_chunk taken in a state other than Active
\* hands nothing to the link and leaves the state, current_block,
\* current_chunk, last_acked_block, the credits and the pacing state
\* unchanged.
C36_NoOpUnlessActive ==
    [][(TickStep /\ current_state # TRANSFER_STATE_ACTIVE)
          => /\ ~link_tx'.sent
             /\ UNCHANGED <<current_state, current_block, current_chunk,
                            last_acked_block, linkVars, pacingVars>>]_vars

\* the sender Paused in the middle of a block, not waiting for an ACK, with
\* a credit and a link that would take a chunk, and nothing handed to the
\* link
C36_Witness_PausedMidBlock ==
    /\ current_state = TRANSFER_STATE_PAUSED
    /\ ~waiting_for_ack
    /\ current_chunk > 0
    /\ current_block < TOTAL_BLOCKS
    /\ notification_credits > 0
    /\ LinkMay(WICED_BT_GATT_SUCCESS)
    /\ ~link_tx.sent

\* C37: an ACK processed in a state other than WaitingAck leaves the state
\* unchanged, also when the session was stopped or paused while it was
\* waiting for an ACK.
C37_AckOnlyFromWaitingAck ==
    [][\A b \in AckValues :
          (AckStep(b) /\ current_state # TRANSFER_STATE_WAITING_ACK)
              => current_state' = current_state]_vars

\* C39: the credits are never exhausted while the link holds no data
\* notification whose transmitted event would give one back.
C39_NoPermanentExhaustion ==
    ~(notification_credits = 0 /\ link_in_flight = 0)

C17_PacingThresholds ==
    [][/\ (SendAttempt(WICED_BT_GATT_CONGESTED)
             /\ consecutive_send_failures < CONGESTION_THRESHOLD - 1)
          => UNCHANGED current_delay_ms
       /\ (SendAttempt(WICED_BT_GATT_CONGESTED)
             /\ consecutive_send_failures = CONGESTION_THRESHOLD - 1)
          => current_delay_ms' =
                (IF current_delay_ms + BACKOFF_INCREMENT > MAX_DELAY_MS
                 THEN MAX_DELAY_MS ELSE current_delay_ms + BACKOFF_INCREMENT)
       /\ (SendAttempt(WICED_BT_GATT_SUCCESS)
             /\ consecutive_send_successes < SUCCESS_THRESHOLD - 1)
          => /\ UNCHANGED current_delay_ms
             /\ consecutive_send_successes' = consecutive_send_successes + 1
       /\ (SendAttempt(WICED_BT_GATT_SUCCESS)
             /\ consecutive_send_successes = SUCCESS_THRESHOLD - 1
             /\ current_delay_ms > MIN_DELAY_MS)
          => /\ current_delay_ms' = current_delay_ms - SPEEDUP_DECREMENT
             /\ consecutive_send_successes' = 0]_vars

\* one back-off from the initial delay, then one speed-up: the 50th
\* successful send in a row has just lowered the delay
C17_Witness_BackoffThenSpeedup ==
    /\ link_tx.sent
    /\ consecutive_send_successes = 0
    /\ current_delay_ms = INITIAL_DELAY_MS + BACKOFF_INCREMENT - SPEEDUP_DECREMENT

(***************************************************************************)
(* Properties of the receiver, checked under SpecReceiver.                 *)
(***************************************************************************)
\* the step in which transfer_session_process_chunk handles the frame data
ChunkStep(data) ==
    /\ transfer_session_process_chunk(data, 0)
    /\ UNCHANGED senderVars

\* the completed set
Completed == DOMAIN received_blocks

\* C5: whenever a call of transfer_session_process_chunk invokes the ack
\* callback with block b, every block 0 .. b is in the completed set.
C5_CumulativeAck ==
    (rx_started /\ rx_calls.called /\ rx_calls.ack # <<>>) =>
        \A k \in 0 .. rx_calls.ack[1] : k \in Completed

\* C6: between one start() and the next the completion callback is invoked
\* at most once, and it has been invoked iff the completed set has
\* TOTAL_BLOCKS elements.
C6_CompletionOnce ==
    rx_started =>
        /\ completion_calls <= 1
        /\ completion_calls = 1 <=> Cardinality(Completed) = TOTAL_BLOCKS

\* C7: feeding the frame of the previous call once more leaves the
\* completed set, the number of waveform callbacks, total_chunks_received
\* and total_bytes_received as the first feed left them.
C7_Idempotent ==
    [][(rx_started /\ rx_calls.called /\ rx_calls.ret /\ ChunkStep(rx_calls.data)) =>
          /\ Completed' = Completed
          /\ Len(waveform_calls') = Len(waveform_calls)
          /\ total_chunks_received' = total_chunks_received
          /\ total_bytes_received' = total_bytes_received]_vars

\* C9: a block is in the completed set only if its decode succeeded.
C9_FailedDecodeDropped ==
    rx_started => \A b \in Completed : DecodeBlock(received_blocks[b]).success

\* the chunk indices the partial entry of block b holds once the chunk of
\* frame data is stored, and the total recorded for the entry
IndicesWith(data) ==
    LET b == FromLE(data, 0, 2)
    IN  {FromLE(data, 2, 2)}
        \cup (IF b \in DOMAIN block_chunks THEN DOMAIN block_chunks[b] ELSE {})
ExpectedTotal(data) ==
    LET b == FromLE(data, 0, 2)
    IN  IF b \in DOMAIN block_expected_chunks THEN block_expected_chunks[b]
        ELSE FromLE(data, 6, 2)

\* C10: a call assembles a block only if the partial entry then holds
\* exactly the chunk indices 0 .. expected_total - 1.
C10_ExactIndices ==
    [][\A data \in Frames :
          (rx_started /\ ChunkStep(data) /\ rx_calls'.progress # <<>>) =>
              IndicesWith(data) = 0 .. ExpectedTotal(data) - 1]_vars

\* the header fields of the frame data
FrameBlock(data) == FromLE(data, 0, 2)
FrameChunk(data) == FromLE(data, 2, 2)
FrameTotal(data) == FromLE(data, 6, 2)

\* the frame data belongs to a partial entry recorded with another total
TotalMismatch(data) ==
    /\ Len(data) >= CHUNK_HEADER_SIZE
    /\ FrameBlock(data) \in DOMAIN block_expected_chunks
    /\ FrameTotal(data) # block_expected_chunks[FrameBlock(data)]

\* C11: a chunk whose total_chunks differs from the expected total recorded
\* for the partial entry of its block is not stored and does not complete
\* the block: the call assembles nothing and the entry, if kept, holds the
\* chunks it held.
C11_ExpectedTotal ==
    [][\A data \in Frames :
          (rx_started /\ TotalMismatch(data) /\ ChunkStep(data)) =>
              /\ rx_calls'.progress = <<>>
              /\ received_blocks' = received_blocks
              /\ FrameBlock(data) \in DOMAIN block_chunks' =>
                    block_chunks'[FrameBlock(data)] = block_chunks[FrameBlock(data)]]_vars

\* the frame data is shorter than the chunk header or names a block past
\* the last
Malformed(data) ==
    \/ Len(data) < CHUNK_HEADER_SIZE
    \/ FrameBlock(data) >= TOTAL_BLOCKS

\* C12: transfer_session_process_chunk returns false for a frame shorter
\* than 12 bytes and for a chunk with block_number >= TOTAL_BLOCKS, and in
\* both cases leaves the partial entries, the completed set and the
\* statistics unchanged and invokes no callback.
C12_RejectMalformed ==
    [][\A data \in Frames :
          (Malformed(data) /\ ChunkStep(data)) =>
              /\ ~rx_calls'.ret
              /\ rx_calls'.waveform = <<>> /\ rx_calls'.ack = <<>>
              /\ rx_calls'.progress = <<>> /\ rx_calls'.completion = <<>>
              /\ UNCHANGED <<block_chunks, block_expected_chunks, received_blocks,
                             total_bytes_received, total_chunks_received, is_active,
                             waveform_calls, completion_calls>>]_vars

\* a session holding a partial entry and a completed block has just
\* rejected a frame with block_number = TOTAL_BLOCKS
C12_Witness_Rejected ==
    /\ rx_started
    /\ rx_calls.called
    /\ ~rx_calls.ret
    /\ Len(rx_calls.data) >= CHUNK_HEADER_SIZE
    /\ FrameBlock(rx_calls.data) = TOTAL_BLOCKS
    /\ DOMAIN block_chunks # {}
    /\ Completed # {}

\* C29: in every reachable receiver state the partial entries number at
\* most TOTAL_BLOCKS minus the number of completed blocks.
C29_PartialsBound ==
    rx_started =>
        Cardinality(DOMAIN block_chunks) <= TOTAL_BLOCKS - Cardinality(Completed)

\* the announced payload size clamped to the bytes the frame holds behind
\* the header
ClampedSize(data) ==
    IF AnnouncedSize(data) < Len(data) - CHUNK_HEADER_SIZE
    THEN AnnouncedSize(data) ELSE Len(data) - CHUNK_HEADER_SIZE

\* C30: a call that accepts a frame of at least 12 bytes adds
\* min(chunk_size, length - 12) to total_bytes_received, and the payload
\* it stores in the partial entry has that length.
C30_PayloadClamped ==
    [][\A data \in Frames, beyond \in BeyondBytes :
          (/\ Len(data) >= CHUNK_HEADER_SIZE
           /\ transfer_session_process_chunk(data, beyond)
           /\ UNCHANGED senderVars
           /\ rx_calls'.ret) =>
              /\ total_bytes_received' = total_bytes_received + ClampedSize(data)
              /\ FrameBlock(data) \in DOMAIN block_chunks' =>
                    Len(block_chunks'[FrameBlock(data)][FrameChunk(data)])
                        = ClampedSize(data)]_vars

\* C31: stop() discards the buffered partials: the map of partial blocks is
\* empty after stop().
C31_StopDiscardsPartials ==
    [][RxStop => block_chunks' = EmptyMap]_vars

\* the callbacks of the last call of transfer_session_process_chunk
CallbacksOf(call) == call.waveform \o call.ack \o call.progress \o call.completion

\* C38: while the session is not active, transfer_session_process_chunk
\* invokes no callback and changes neither the block maps nor the
\* statistics.
C38_InactiveIgnoresChunks ==
    [][(~is_active /\ RxChunk)
          => /\ CallbacksOf(rx_calls') = <<>>
             /\ UNCHANGED <<received_blocks, block_chunks, block_expected_chunks,
                            total_bytes_received, total_chunks_received>>]_vars

(***************************************************************************)
(* Properties of the round trip, checked under SpecRoundTrip.              *)
(***************************************************************************)
\* the header fields of block b as app_waveform_generate sets them, in the
\* fields the receiver hands to the waveform callback
SourceHeader(b) ==
    [block_number |-> b,
     timestamp_ms |-> b * 100,
     sample_rate_hz |-> 50000000,
     sample_count |-> SAMPLES_PER_WAVEFORM,
     trigger_sample |-> 250,
     pulse_freq_hz |-> 5000000,
     temperature_cx10 |-> 235,
     gain_db |-> 60,
     crc32 |-> app_waveform_crc32(PackSamples(SourceSamples(b), 1))]

\* the waveform callbacks made for block b
WaveformCallsOf(b) ==
    {i \in 1 .. Len(waveform_calls) : waveform_calls[i].header.block_number = b}

\* C8: a raw block of the sender, fed chunk by chunk at any chunk payload
\* size, gives exactly one waveform callback, with is_compressed = false
\* and the header and samples of the source.
C8_RawRoundTrip ==
    \A b \in Completed :
        /\ Cardinality(WaveformCallsOf(b)) = 1
        /\ \A i \in WaveformCallsOf(b) :
              /\ ~waveform_calls[i].is_compressed
              /\ waveform_calls[i].header = SourceHeader(b)
              /\ waveform_calls[i].samples = SourceSamples(b)

\* ceil(n / d)
CeilDiv(n, d) == CHOOSE q \in 0 .. n : q * d >= n /\ (q - 1) * d < n
\* the payload of the frame data
FramePayload(data) == SubSeq(data, CHUNK_HEADER_SIZE + 1, Len(data))
\* the smaller of a and b
Min(a, b) == IF a < b THEN a ELSE b

\* C33: with p the chunk payload size and n the block size, chunk k of a
\* block goes out with total_chunks = ceil(n / p), k below it, chunk_size =
\* min(p, n - k * p) and the block's bytes [k * p, k * p + chunk_size) as
\* payload; only the final chunk is shorter than p, and the sizes of the
\* chunks sent so far add up to the bytes of the blocks and chunks behind
\* the sender's position, n for every whole block.
C33_ChunkSlicing ==
    (rx_calls.called /\ current_state # TRANSFER_STATE_IDLE) =>
        LET data == rx_calls.data
            k == FrameChunk(data)
            total == CeilDiv(current_block_size, actual_chunk_size)
            size == Min(actual_chunk_size, current_block_size - k * actual_chunk_size)
        IN  /\ k < total
            /\ FrameTotal(data) = total
            /\ AnnouncedSize(data) = size
            /\ FramePayload(data) = SubSeq(BlockBytes(FrameBlock(data)),
                                           k * actual_chunk_size + 1,
                                           k * actual_chunk_size + size)
            /\ size < actual_chunk_size => k = total - 1
            /\ total_bytes_received = current_block * current_block_size
                                      + current_chunk * actual_chunk_size

\* the final chunk of a block has gone out shorter than the chunk payload
\* size, behind at least two full chunks
C33_Witness_ShortFinalChunk ==
    /\ rx_calls.called
    /\ current_state # TRANSFER_STATE_IDLE
    /\ FrameChunk(rx_calls.data) >= 2
    /\ FrameChunk(rx_calls.data) = FrameTotal(rx_calls.data) - 1
    /\ AnnouncedSize(rx_calls.data) < actual_chunk_size

\* C35: a call that completes block b invokes the ack callback, with b, iff
\* b > 0 and (b + 1) mod ACK_INTERVAL = 0; and whenever the sender waits at
\* a barrier (WaitingAck, current_block a multiple of ACK_INTERVAL below
\* TOTAL_BLOCKS) the receiver has completed block current_block - 1 and
\* its ack callback has been invoked with current_block - 1.
C35_AckMatchesBarrier ==
    /\ (rx_calls.called /\ rx_calls.progress # <<>>) =>
          LET b == FrameBlock(rx_calls.data)
          IN  rx_calls.ack = IF b > 0 /\ (b + 1) % ACK_INTERVAL = 0
                             THEN <<b>> ELSE <<>>
    /\ current_state = TRANSFER_STATE_WAITING_ACK =>
          /\ current_block % ACK_INTERVAL = 0
          /\ current_block < TOTAL_BLOCKS
          /\ current_block - 1 \in Completed
          /\ rx_calls.called
          /\ rx_calls.ack = <<current_block - 1>>

\* the sender waits at its first barrier and the receiver has asked for
\* the ACK of the block before it
C35_Witness_AtBarrier ==
    /\ current_state = TRANSFER_STATE_WAITING_ACK
    /\ current_block = ACK_INTERVAL
    /\ rx_calls.called
    /\ rx_calls.ack = <<ACK_INTERVAL - 1>>

(***************************************************************************)
(* The sample packing, checked under SpecSamples.                          *)
(***************************************************************************)
\* C40: for samples in the signed 24-bit range, unpacking the 3-byte
\* little-endian packing returns the samples, with the sender's unpack and
\* with the receiver's.
C40_PackUnpackIdentity ==
    unpacked_samples # <<>> =>
        /\ unpacked_samples.sender = waveform_samples
        /\ unpacked_samples.receiver = waveform_samples

\* the most negative and the most positive sample have been packed and
\* read back
C40_Witness_Extremes ==
    /\ unpacked_samples # <<>>
    /\ waveform_samples = <<-8388608, 8388607>>

(***************************************************************************)
(* Recovery after a disconnection, checked under SpecFirmware.             *)
(***************************************************************************)
\* C21: once the central is connected again and notifications are enabled,
\* a transfer that a disconnection left Paused leaves Paused.
C21_ResumesAfterReconnect ==
    (/\ current_state = TRANSFER_STATE_PAUSED
     /\ app_bt_conn_id # 0
     /\ notifications_enabled) ~> (current_state # TRANSFER_STATE_PAUSED)

(***************************************************************************)
(* The ACK barrier under interleaving, checked under SpecInterleaved.      *)
(***************************************************************************)
\* C28: whenever data_transfer_task is between two calls of
\* process_next_chunk and the sender is in WaitingAck, the ACK it waits
\* for has not been consumed: last_acked_block < current_block.
C28_NoConsumedAckWait ==
    (task_pc = "call" /\ current_state = TRANSFER_STATE_WAITING_ACK)
        => last_acked_block < current_block

(***************************************************************************)
(* Completion of the round trip, checked under SpecRoundTripFair.          *)
(***************************************************************************)
\* the sender has sent everything and the receiver has every block and has
\* called the completion callback
TransferDone ==
    /\ current_state = TRANSFER_STATE_COMPLETE
    /\ completion_calls = 1
    /\ Completed = 0 .. TOTAL_BLOCKS - 1

=============================================================================
